---- MODULE Spec2Model ----
(***************************************************************************)
(* A model of the omnisnip StorageService                                  *)
(* (apps/cli/src/services/storage.service.ts): a snippet collection kept   *)
(* as one JSON array in <storagePath>/snippets.json.  Every operation      *)
(* reads the whole file, works on the parsed array and (when it mutates)   *)
(* writes the whole file back.                                             *)
(*                                                                         *)
(* A call runs from one await to the next in one step: fs.readFile,        *)
(* fs.mkdir, and fs.writeFile, which is itself two steps, the open that    *)
(* truncates the file and the write of the text.  Between two steps of a   *)
(* call the environment, and in the concurrent specifications the other    *)
(* caller, may act.                                                        *)
(*                                                                         *)
(* Strings are sequences of one-character strings, so that toLowerCase,    *)
(* includes and the < of the sort comparator are computed, not assumed.    *)
(* A timestamp is a Date object or the ISO-8601 string of the same         *)
(* instant: [type |-> "Date" | "string", ms |-> instant].                  *)
(* An optional property is a set: {} when absent, {v} when present.        *)
(* Array.prototype.filter is SelectSeq.                                     *)
(***************************************************************************)
EXTENDS Integers, Sequences, FiniteSets, TLC

VARIABLES
    dirExists,  \* the storage directory exists on disk
    file,       \* snippets.json: [state |-> "absent" | "empty" | "corrupt" | "json", data |-> the array]
    env,        \* the file system's condition: [mkdirFails, writeFails]
    clock,      \* the instant new Date() reads
    nextId,     \* the uuidv4 generator: the next fresh identifier
    created,    \* the identifiers of the records add has returned
    nOps,       \* calls started so far
    op,         \* what happened last, a call started or an event of the environment: [name, id, input, prev]
    calls       \* per caller, the call it made last: where it stands, what it holds, what it returned

vars == <<dirExists, file, env, clock, nextId, created, nOps, op, calls>>

---------------------------------------------------------------------------
(* Bounds *)

MaxIds == 2
MaxClock == 2
MaxOps == 3
MaxLen == 3
MaxSearchOps == 2
MaxAdds == 2

---------------------------------------------------------------------------
(* Strings *)

Upper == <<"A", "B", "C", "D", "E", "F", "G", "H", "I", "J", "K", "L", "M",
           "N", "O", "P", "Q", "R", "S", "T", "U", "V", "W", "X", "Y", "Z">>
Lower == <<"a", "b", "c", "d", "e", "f", "g", "h", "i", "j", "k", "l", "m",
           "n", "o", "p", "q", "r", "s", "t", "u", "v", "w", "x", "y", "z">>

IsUpper(c) == \E i \in DOMAIN Upper : Upper[i] = c

\* The UTF-16 code unit of a letter: "A" is 65, "a" is 97.
CharCode(c) ==
    IF IsUpper(c) THEN 64 + (CHOOSE i \in DOMAIN Upper : Upper[i] = c)
    ELSE 96 + (CHOOSE i \in DOMAIN Lower : Lower[i] = c)

LowerChar(c) ==
    IF IsUpper(c) THEN Lower[CHOOSE i \in DOMAIN Upper : Upper[i] = c] ELSE c

\* String.prototype.toLowerCase
ToLowerCase(s) == [i \in DOMAIN s |-> LowerChar(s[i])]

\* String.prototype.includes: sub occurs in s as a contiguous substring
Includes(s, sub) ==
    \E k \in 0..(Len(s) - Len(sub)) :
        \A i \in 1..Len(sub) : s[k + i] = sub[i]

\* a < b on strings: lexicographic order of the code units
RECURSIVE StrLess(_, _)
StrLess(a, b) ==
    IF b = <<>> THEN FALSE
    ELSE IF a = <<>> THEN TRUE
    ELSE IF CharCode(Head(a)) # CharCode(Head(b))
         THEN CharCode(Head(a)) < CharCode(Head(b))
    ELSE StrLess(Tail(a), Tail(b))

---------------------------------------------------------------------------
(* Timestamps and JSON *)

DateObj(ms) == [type |-> "Date", ms |-> ms]
IsoString(ms) == [type |-> "string", ms |-> ms]

\* JSON.stringify of a timestamp: Date.prototype.toJSON gives the ISO string
\* of the instant, a string stays the string it is.
TimestampToJSON(ts) == IsoString(ts.ms)

\* new Date(x).getTime(), for a Date or an ISO string
GetTime(ts) == ts.ms

SnippetToJSON(s) ==
    [s EXCEPT !.createdAt = TimestampToJSON(s.createdAt),
              !.updatedAt = TimestampToJSON(s.updatedAt)]

\* JSON.stringify(data, null, 2): the document the file holds, given as the
\* value JSON.parse reads back from it.
JSONStringify(data) == [i \in DOMAIN data |-> SnippetToJSON(data[i])]

\* The properties of a record in the file
SnippetKeys ==
    {"id", "title", "description", "code", "language", "category",
     "favorite", "tags", "createdAt", "updatedAt", "extra"}

RECURSIVE SumOver(_, _)
SumOver(f, S) ==
    IF S = {} THEN 0
    ELSE LET x == CHOOSE y \in S : TRUE IN f[x] + SumOver(f, S \ {x})

\* The length of the text JSON.stringify(value, null, 2) gives for the value
\* of a property: a uuid has 36 characters and an ISO timestamp 24, both in
\* quotes; a tag is one letter, on a line of its own, indented by six
ValueTextLen(s, key) ==
    IF key = "id" THEN 38
    ELSE IF key \in {"createdAt", "updatedAt"} THEN 26
    ELSE IF key = "favorite" THEN (IF s.favorite THEN 4 ELSE 5)
    ELSE IF key = "extra" THEN 1
    ELSE IF key = "tags"
    THEN IF s.tags = <<>> THEN 2
         ELSE 8 + 9 * Len(s.tags) + 2 * (Len(s.tags) - 1)
    ELSE Len(s[key]) + 2

\* The number of characters of each property name
KeyTextLen ==
    [id |-> 2, title |-> 5, description |-> 11, code |-> 4, language |-> 8,
     category |-> 8, favorite |-> 8, tags |-> 4, createdAt |-> 9,
     updatedAt |-> 9, extra |-> 5]

\* One line per property, indented by four: "key": value
SnippetTextLen(s) ==
    LET keys == IF s.extra = {} THEN SnippetKeys \ {"extra"} ELSE SnippetKeys
    IN 8 + SumOver([k \in keys |-> 8 + KeyTextLen[k] + ValueTextLen(s, k)], keys)
         + 2 * (Cardinality(keys) - 1)

\* The number of characters of JSON.stringify(data, null, 2)
TextLen(data) ==
    IF data = <<>> THEN 2
    ELSE 4 + SumOver([i \in DOMAIN data |-> SnippetTextLen(data[i])], DOMAIN data)
           + 2 * (Len(data) - 1)

---------------------------------------------------------------------------
(* Errors, by the message the thrown Error starts with *)

StorageDirectoryError == "Failed to create storage directory"
StorageReadError == "Failed to read storage file"
StorageWriteError == "Failed to write storage file"
StorageCleanupError == "Failed to clean up storage directory"

Threw(msg) == [kind |-> "error", val |-> msg]
Returned(kind, val) == [kind |-> kind, val |-> val]

NoFile == [state |-> "absent", data |-> <<>>]
\* The file as fs.writeFile leaves it when it has opened it: no text in it
EmptyFile == [state |-> "empty", data |-> <<>>]
CorruptFile == [state |-> "corrupt", data |-> <<>>]
JsonFile(data) == [state |-> "json", data |-> data]

---------------------------------------------------------------------------
(* Inputs *)

LangGo == <<"g", "o">>
LangR == <<"r">>
CatOther == <<"o", "t", "h", "e", "r">>
CatConfig == <<"c", "o", "n", "f", "i", "g">>

\* The fields of UpdateSnippetInput: Partial<Omit<Snippet, id | createdAt | updatedAt>>
UpdatableFields ==
    {"title", "description", "code", "language", "category", "tags", "favorite"}

Optional(S) == {{}} \cup {{v} : v \in S}

\* CreateSnippetInput values with the declared properties and no other: tags
\* and favorite given or left out.  id, createdAt and extra are properties the
\* type does not declare and an object passed as input may have all the same.
AllCreateInputs ==
    [title : {<<"A", "b">>}, description : {<<"b">>}, code : {<<"c">>},
     language : {LangGo}, category : {CatOther},
     tags : Optional({<<"t">>}), favorite : Optional({TRUE}),
     id : {{}}, createdAt : {{}}, extra : {{}}]

\* CreateSnippetInput values of the lifecycle specification: both optional
\* fields given, or both left out
CreateInputs == {c \in AllCreateInputs : c.tags = {} <=> c.favorite = {}}

\* A Snippet passed as CreateSnippetInput, which the type checker accepts: a
\* record read from the store has every property the input type declares
SnippetAsInput(snippet) ==
    [title |-> snippet.title, description |-> snippet.description,
     code |-> snippet.code, language |-> snippet.language,
     category |-> snippet.category,
     tags |-> {snippet.tags}, favorite |-> {snippet.favorite},
     id |-> {snippet.id}, createdAt |-> {snippet.createdAt},
     extra |-> snippet.extra]

\* UpdateSnippetInput values: every field absent, or present with one of two
\* values, the falsy ones (false, "", []) included
AllUpdateInputs ==
    [title : Optional({<<>>, <<"a">>}), description : Optional({<<>>, <<"B">>}),
     code : Optional({<<>>, <<"d">>}), language : Optional({LangR}),
     category : Optional({CatConfig}),
     tags : Optional({<<>>, <<"u", "t">>}), favorite : Optional(BOOLEAN)]

PresentFields(input) == {f \in UpdatableFields : input[f] # {}}

\* UpdateSnippetInput values of the lifecycle specification: nothing present,
\* or falsy values present
UpdateInputs ==
    {u \in AllUpdateInputs :
        \/ PresentFields(u) = {}
        \/ /\ PresentFields(u) = {"title", "favorite"}
           /\ u.title = {<<>>} /\ u.favorite = {FALSE}}

\* Identifiers a caller may pass: 0 is an identifier uuidv4 never returned
IdArgs == 0..MaxIds

---------------------------------------------------------------------------
(* File access *)

\* a ?? b
Coalesce(a, b) == IF a = {} THEN b ELSE CHOOSE v \in a : TRUE

\* A bug: ENOENT is not told apart, a missing file is a read error
ReadJSONFileNoEnoent ==
    IF file.state = "json" THEN [ok |-> TRUE, data |-> file.data]
    ELSE [ok |-> FALSE, data |-> <<>>]

\* A bug: every read error gives the empty array
ReadJSONFileSwallow ==
    IF file.state = "json" THEN [ok |-> TRUE, data |-> file.data]
    ELSE [ok |-> TRUE, data |-> <<>>]

\* readJSONFile: the parsed array, [] when the file does not exist (ENOENT),
\* an error when it exists and cannot be read or parsed; a file without text
\* cannot be parsed
ReadJSONFile ==
    IF file.state = "absent" THEN [ok |-> TRUE, data |-> <<>>]
    ELSE IF file.state = "json" THEN [ok |-> TRUE, data |-> file.data]
    ELSE [ok |-> FALSE, data |-> <<>>]

\* The callers: the lifecycle specifications have the first only
Callers == {1, 2}

NoRet == [kind |-> "none", val |-> <<>>]
NoOp == [name |-> "none", id |-> 0, input |-> <<>>, prev |-> "none"]

\* A call: pc is where it stands ("mkdir", "open", "write": the await it is
\* at; "done": it returned or threw, and ret is what); snippets is the array
\* it will write and result what it will return; readAt, openAt and wroteAt
\* number its read, its open and its write of the file among those of all
\* callers, in the order they happen
Call(pc, name, id, input, snippets, result, r, readAt) ==
    [pc |-> pc, name |-> name, id |-> id, input |-> input,
     snippets |-> snippets, result |-> result, ret |-> r,
     readAt |-> readAt, openAt |-> 0, wroteAt |-> 0]

\* A call not made yet
NoCall == Call("idle", "none", 0, <<>>, <<>>, NoRet, NoRet, 0)

NoCalls == [p \in Callers |-> NoCall]

\* Reads, opens and writes of the file done so far by the calls of S
IoCount(S) ==
    Cardinality({p \in S : calls[p].readAt > 0})
    + Cardinality({p \in S : calls[p].openAt > 0})
    + Cardinality({p \in S : calls[p].wroteAt > 0})

\* The number of the read a call of p starts with
ReadNo(p) == IoCount(Callers \ {p}) + 1

\* Caller p starts a call: it has none pending
Issue(p, name, id, input) ==
    /\ calls[p].pc \in {"idle", "done"}
    /\ nOps < MaxOps
    /\ nOps' = nOps + 1
    /\ op' = [name |-> name, id |-> id, input |-> input, prev |-> op.name]
    /\ UNCHANGED env

\* The call returns or throws at its first await, having written nothing
Settle(p, name, id, input, r, readAt) ==
    /\ calls' = [calls EXCEPT ![p] =
           Call("done", name, id, input, <<>>, NoRet, r, readAt)]
    /\ UNCHANGED <<dirExists, file, created>>

\* A bug: writeJSONFile does not call ensureStoragePath
PersistSkipsMkdir(p, name, id, input, snippets, result, readAt) ==
    /\ calls' = [calls EXCEPT ![p] =
           Call("open", name, id, input, snippets, result, NoRet, readAt)]
    /\ UNCHANGED <<dirExists, file, created>>

\* The call enters writeJSONFile(snippets), to return result after it
Persist(p, name, id, input, snippets, result, readAt) ==
    /\ calls' = [calls EXCEPT ![p] =
           Call("mkdir", name, id, input, snippets, result, NoRet, readAt)]
    /\ UNCHANGED <<dirExists, file, created>>

\* The call throws from writeJSONFile
Thrown(call, msg) ==
    [call EXCEPT !.pc = "done", !.snippets = <<>>, !.result = NoRet,
                 !.ret = Threw(msg)]

\* A bug: mkdir inside the try of the write, so its failure reads as a
\* write failure
EnsureStoragePathWriteError(p) ==
    /\ calls[p].pc = "mkdir"
    /\ IF env.mkdirFails
       THEN /\ calls' = [calls EXCEPT ![p] = Thrown(@, StorageWriteError)]
            /\ UNCHANGED dirExists
       ELSE /\ dirExists' = TRUE
            /\ calls' = [calls EXCEPT ![p] = [@ EXCEPT !.pc = "open"]]
    /\ UNCHANGED <<file, env, clock, nextId, created, nOps, op>>

\* writeJSONFile, up to the await of fs.writeFile: ensureStoragePath, which
\* is fs.mkdir with recursive: true, so a directory that exists is no error
EnsureStoragePath(p) ==
    /\ calls[p].pc = "mkdir"
    /\ IF env.mkdirFails
       THEN /\ calls' = [calls EXCEPT ![p] = Thrown(@, StorageDirectoryError)]
            /\ UNCHANGED dirExists
       ELSE /\ dirExists' = TRUE
            /\ calls' = [calls EXCEPT ![p] = [@ EXCEPT !.pc = "open"]]
    /\ UNCHANGED <<file, env, clock, nextId, created, nOps, op>>

\* fs.writeFile, its first half: the file is opened with the flag "w", which
\* creates it or cuts it to no text; there is no opening a file in a
\* directory that does not exist
WriteFileOpen(p) ==
    /\ calls[p].pc = "open"
    /\ IF env.writeFails \/ ~dirExists
       THEN /\ calls' = [calls EXCEPT ![p] = Thrown(@, StorageWriteError)]
            /\ UNCHANGED file
       ELSE /\ file' = EmptyFile
            /\ calls' = [calls EXCEPT ![p] =
                   [@ EXCEPT !.pc = "write", !.openAt = IoCount(Callers) + 1]]
    /\ UNCHANGED <<dirExists, env, clock, nextId, created, nOps, op>>

\* What the file holds after the text of data was written from its start:
\* the text alone when the file had none or a shorter one; the text followed
\* by the rest of a longer one, which is no JSON.  Text put there from
\* outside may be shorter or longer.
WrittenOver(f, data) ==
    IF f.state = "absent" THEN {f}
    ELSE IF f.state = "empty" THEN {JsonFile(JSONStringify(data))}
    ELSE IF f.state = "corrupt" THEN {JsonFile(JSONStringify(data)), CorruptFile}
    ELSE IF TextLen(data) >= TextLen(f.data) THEN {JsonFile(JSONStringify(data))}
    ELSE {CorruptFile}

\* A change that would hide the race: the write appends the caller's last
\* record to what the file holds now
WriteFileWriteAppend(p) ==
    /\ calls[p].pc = "write"
    /\ file' = JsonFile(file.data \o
                 JSONStringify(<<calls[p].snippets[Len(calls[p].snippets)]>>))
    /\ calls' = [calls EXCEPT ![p] =
           [@ EXCEPT !.pc = "done", !.snippets = <<>>, !.result = NoRet,
                     !.ret = calls[p].result,
                     !.wroteAt = IoCount(Callers) + 1]]
    /\ created' = created \cup {calls[p].result.val.id}
    /\ UNCHANGED <<dirExists, env, clock, nextId, nOps, op>>

\* fs.writeFile, its second half, and the return of the call: the text is
\* written from the start of the file opened before, over whatever was
\* written there since; a failed write leaves the file as it is or with a
\* part of the text in it, which is no JSON
WriteFileWrite(p) ==
    /\ calls[p].pc = "write"
    /\ IF env.writeFails
       THEN /\ calls' = [calls EXCEPT ![p] = Thrown(@, StorageWriteError)]
            /\ file' \in IF file.state = "absent" THEN {file} ELSE {file, CorruptFile}
            /\ UNCHANGED created
       ELSE /\ file' \in WrittenOver(file, calls[p].snippets)
            /\ calls' = [calls EXCEPT ![p] =
                   [@ EXCEPT !.pc = "done", !.snippets = <<>>, !.result = NoRet,
                             !.ret = calls[p].result,
                             !.wroteAt = IoCount(Callers) + 1]]
            /\ created' = IF calls[p].name = "add"
                          THEN created \cup {calls[p].result.val.id}
                          ELSE created
    /\ UNCHANGED <<dirExists, env, clock, nextId, nOps, op>>

\* uuidv4(): a fresh identifier
Uuidv4 == nextId

\* The indices of the records with this identifier
IndicesOf(data, id) == {i \in DOMAIN data : data[i].id = id}

\* A bug: the scan stops at the first record, whatever its identifier
FindIndexFirstRecord(data, id) == IF data = <<>> THEN 0 ELSE 1

\* Array.prototype.findIndex on the identifier (0 stands for -1)
FindIndex(data, id) ==
    IF IndicesOf(data, id) = {} THEN 0
    ELSE CHOOSE i \in IndicesOf(data, id) : \A j \in IndicesOf(data, id) : i <= j

---------------------------------------------------------------------------
(* Operations *)

\* A bug: a record is a favourite unless the input says otherwise
NewSnippetFavoriteByDefault(input, id, t1, t2) ==
    [id |-> Coalesce(input.id, id),
     title |-> input.title, description |-> input.description,
     code |-> input.code, language |-> input.language,
     category |-> input.category, extra |-> input.extra,
     favorite |-> Coalesce(input.favorite, TRUE),
     tags |-> Coalesce(input.tags, <<>>),
     createdAt |-> DateObj(t1), updatedAt |-> DateObj(t2)]

\* { id: uuidv4(), ...input, favorite: ..., tags: ..., createdAt: new Date(),
\* updatedAt: new Date() }: the properties of the input come after id, so an
\* id of the input replaces the generated one, and before the other four,
\* which replace those of the input; a property of the input that Snippet
\* does not have is in the record all the same
NewSnippet(input, id, t1, t2) ==
    [id |-> Coalesce(input.id, id),
     title |-> input.title, description |-> input.description,
     code |-> input.code, language |-> input.language,
     category |-> input.category, extra |-> input.extra,
     favorite |-> Coalesce(input.favorite, FALSE),
     tags |-> Coalesce(input.tags, <<>>),
     createdAt |-> DateObj(t1), updatedAt |-> DateObj(t2)]

\* A bug: a file that cannot be parsed is taken to be empty, and replaced
AddStartsOver(p, input) ==
    /\ nextId <= MaxIds
    /\ Issue(p, "add", 0, input)
    /\ \E t2 \in {t \in {clock, clock + 1} : t <= MaxClock} :
         LET newSnippet == NewSnippet(input, Uuidv4, clock, t2) IN
         /\ nextId' = nextId + 1
         /\ clock' = t2
         /\ Persist(p, "add", 0, input, Append(file.data, newSnippet),
                    Returned("snippet", newSnippet), ReadNo(p))

\* A bug: the new record is put in front of the stored ones
AddUnshift(p, input) ==
    /\ nextId <= MaxIds
    /\ Issue(p, "add", 0, input)
    /\ LET rd == ReadJSONFile IN
       IF ~rd.ok
       THEN /\ Settle(p, "add", 0, input, Threw(StorageReadError), 0)
            /\ UNCHANGED <<clock, nextId>>
       ELSE \E t2 \in {t \in {clock, clock + 1} : t <= MaxClock} :
              LET newSnippet == NewSnippet(input, Uuidv4, clock, t2) IN
              /\ nextId' = nextId + 1
              /\ clock' = t2
              /\ Persist(p, "add", 0, input, <<newSnippet>> \o rd.data,
                         Returned("snippet", newSnippet), ReadNo(p))

\* add(input), up to the await of fs.mkdir: readJSONFile, newSnippet, push.
\* The two new Date() calls read the clock one after the other.
Add(p, input) ==
    /\ nextId <= MaxIds
    /\ Issue(p, "add", 0, input)
    /\ LET rd == ReadJSONFile IN
       IF ~rd.ok
       THEN /\ Settle(p, "add", 0, input, Threw(StorageReadError), 0)
            /\ UNCHANGED <<clock, nextId>>
       ELSE \E t2 \in {t \in {clock, clock + 1} : t <= MaxClock} :
              LET newSnippet == NewSnippet(input, Uuidv4, clock, t2) IN
              /\ nextId' = nextId + 1
              /\ clock' = t2
              /\ Persist(p, "add", 0, input, Append(rd.data, newSnippet),
                         Returned("snippet", newSnippet), ReadNo(p))

GetAll(p) ==
    /\ Issue(p, "getAll", 0, <<>>)
    /\ LET rd == ReadJSONFile IN
       IF ~rd.ok THEN Settle(p, "getAll", 0, <<>>, Threw(StorageReadError), 0)
       ELSE Settle(p, "getAll", 0, <<>>, Returned("array", rd.data), ReadNo(p))
    /\ UNCHANGED <<clock, nextId>>

\* snippets.find(...) || null
GetById(p, id) ==
    /\ Issue(p, "getById", id, <<>>)
    /\ LET rd == ReadJSONFile
           index == FindIndex(rd.data, id) IN
       IF ~rd.ok THEN Settle(p, "getById", id, <<>>, Threw(StorageReadError), 0)
       ELSE Settle(p, "getById", id, <<>>,
                   IF index = 0 THEN Returned("null", <<>>)
                   ELSE Returned("snippet", rd.data[index]), ReadNo(p))
    /\ UNCHANGED <<clock, nextId>>

\* A bug: favorite merged with || instead of ??, so that false never
\* overwrites true
UpdatedSnippetFavoriteOr(originalSnippet, input, now) ==
    [id |-> originalSnippet.id,
     createdAt |-> originalSnippet.createdAt,
     title |-> Coalesce(input.title, originalSnippet.title),
     description |-> Coalesce(input.description, originalSnippet.description),
     code |-> Coalesce(input.code, originalSnippet.code),
     language |-> Coalesce(input.language, originalSnippet.language),
     category |-> Coalesce(input.category, originalSnippet.category),
     tags |-> Coalesce(input.tags, originalSnippet.tags),
     favorite |-> IF input.favorite = {TRUE} THEN TRUE
                  ELSE originalSnippet.favorite,
     updatedAt |-> DateObj(now), extra |-> {}]

\* A bug: createdAt is refreshed along with updatedAt
UpdatedSnippetNewCreatedAt(originalSnippet, input, now) ==
    [id |-> originalSnippet.id,
     createdAt |-> DateObj(now),
     title |-> Coalesce(input.title, originalSnippet.title),
     description |-> Coalesce(input.description, originalSnippet.description),
     code |-> Coalesce(input.code, originalSnippet.code),
     language |-> Coalesce(input.language, originalSnippet.language),
     category |-> Coalesce(input.category, originalSnippet.category),
     tags |-> Coalesce(input.tags, originalSnippet.tags),
     favorite |-> Coalesce(input.favorite, originalSnippet.favorite),
     updatedAt |-> DateObj(now), extra |-> {}]

\* The object update builds: the ten properties of Snippet and no other, so
\* a property the original has beyond them is not in it
UpdatedSnippet(originalSnippet, input, now) ==
    [id |-> originalSnippet.id,
     createdAt |-> originalSnippet.createdAt,
     title |-> Coalesce(input.title, originalSnippet.title),
     description |-> Coalesce(input.description, originalSnippet.description),
     code |-> Coalesce(input.code, originalSnippet.code),
     language |-> Coalesce(input.language, originalSnippet.language),
     category |-> Coalesce(input.category, originalSnippet.category),
     tags |-> Coalesce(input.tags, originalSnippet.tags),
     favorite |-> Coalesce(input.favorite, originalSnippet.favorite),
     updatedAt |-> DateObj(now), extra |-> {}]

\* A bug: the record is taken out and the updated one pushed at the end
UpdateMovesLast(p, id, input) ==
    /\ Issue(p, "update", id, input)
    /\ LET rd == ReadJSONFile
           index == FindIndex(rd.data, id) IN
       IF ~rd.ok THEN Settle(p, "update", id, input, Threw(StorageReadError), 0)
       ELSE IF index = 0
       THEN Settle(p, "update", id, input, Returned("null", <<>>), ReadNo(p))
       ELSE LET updatedSnippet == UpdatedSnippet(rd.data[index], input, clock) IN
            Persist(p, "update", id, input,
                    SubSeq(rd.data, 1, index - 1)
                        \o SubSeq(rd.data, index + 1, Len(rd.data))
                        \o <<updatedSnippet>>,
                    Returned("snippet", updatedSnippet), ReadNo(p))
    /\ UNCHANGED <<clock, nextId>>

\* update(id, input), up to the await of fs.mkdir, or to its return when it
\* does not write: readJSONFile, findIndex, updatedSnippet, snippets[index] = ...
Update(p, id, input) ==
    /\ Issue(p, "update", id, input)
    /\ LET rd == ReadJSONFile
           index == FindIndex(rd.data, id) IN
       IF ~rd.ok THEN Settle(p, "update", id, input, Threw(StorageReadError), 0)
       ELSE IF index = 0
       THEN Settle(p, "update", id, input, Returned("null", <<>>), ReadNo(p))
       ELSE LET updatedSnippet == UpdatedSnippet(rd.data[index], input, clock) IN
            Persist(p, "update", id, input,
                    [rd.data EXCEPT ![index] = updatedSnippet],
                    Returned("snippet", updatedSnippet), ReadNo(p))
    /\ UNCHANGED <<clock, nextId>>

\* snippets.filter((snippet) => snippet.id !== id)
WithoutId(data, id) ==
    LET Keep(snippet) == snippet.id # id IN SelectSeq(data, Keep)

\* A bug: the filtered array is written whether or not a record went
DeleteAlwaysWrites(p, id) ==
    /\ Issue(p, "delete", id, <<>>)
    /\ LET rd == ReadJSONFile
           filtered == WithoutId(rd.data, id) IN
       IF ~rd.ok THEN Settle(p, "delete", id, <<>>, Threw(StorageReadError), 0)
       ELSE Persist(p, "delete", id, <<>>, filtered,
                    Returned("boolean", Len(filtered) # Len(rd.data)), ReadNo(p))
    /\ UNCHANGED <<clock, nextId>>

\* delete(id), up to the await of fs.mkdir, or to its return when it does
\* not write: readJSONFile, filter, the comparison of the lengths
Delete(p, id) ==
    /\ Issue(p, "delete", id, <<>>)
    /\ LET rd == ReadJSONFile
           filtered == WithoutId(rd.data, id) IN
       IF ~rd.ok THEN Settle(p, "delete", id, <<>>, Threw(StorageReadError), 0)
       ELSE IF Len(filtered) # Len(rd.data)
       THEN Persist(p, "delete", id, <<>>, filtered, Returned("boolean", TRUE), ReadNo(p))
       ELSE Settle(p, "delete", id, <<>>, Returned("boolean", FALSE), ReadNo(p))
    /\ UNCHANGED <<clock, nextId>>

\* A bug: the file is unlinked, which fails when there is no file
DeleteAllUnlink(p) ==
    /\ Issue(p, "deleteAll", 0, <<>>)
    /\ calls' = [calls EXCEPT ![p] =
           Call("done", "deleteAll", 0, <<>>, <<>>, NoRet,
                IF file.state = "absent" THEN Threw(StorageWriteError)
                ELSE Returned("void", <<>>), 0)]
    /\ file' = NoFile
    /\ UNCHANGED <<dirExists, created, clock, nextId>>

\* A bug: the file is read before it is replaced, as the other writers do
DeleteAllReadsFirst(p) ==
    /\ Issue(p, "deleteAll", 0, <<>>)
    /\ IF ~ReadJSONFile.ok
       THEN Settle(p, "deleteAll", 0, <<>>, Threw(StorageReadError), 0)
       ELSE Persist(p, "deleteAll", 0, <<>>, <<>>, Returned("void", <<>>), ReadNo(p))
    /\ UNCHANGED <<clock, nextId>>

\* deleteAll(), up to the await of fs.mkdir: writeJSONFile([]), and no read
DeleteAll(p) ==
    /\ Issue(p, "deleteAll", 0, <<>>)
    /\ Persist(p, "deleteAll", 0, <<>>, <<>>, Returned("void", <<>>), 0)
    /\ UNCHANGED <<clock, nextId>>

\* cleanup(), the method the tests call after each of them: fs.rm with
\* recursive and force removes the directory and the file in it, and is no
\* error when there is none; when fs.rm rejects, the file may be gone and
\* the directory still there
Cleanup(p) ==
    /\ Issue(p, "cleanup", 0, <<>>)
    /\ \/ /\ dirExists' = FALSE
          /\ file' = NoFile
          /\ calls' = [calls EXCEPT ![p] =
                 Call("done", "cleanup", 0, <<>>, <<>>, NoRet,
                      Returned("void", <<>>), 0)]
       \/ /\ dirExists
          /\ dirExists' = dirExists
          /\ file' \in {file, NoFile}
          /\ calls' = [calls EXCEPT ![p] =
                 Call("done", "cleanup", 0, <<>>, <<>>, NoRet,
                      Threw(StorageCleanupError), 0)]
    /\ UNCHANGED <<created, clock, nextId>>

---------------------------------------------------------------------------
(* filter, sortSnippets, search *)

\* if (x) on an optional string: present and not ""
Truthy(opt) == opt # {} /\ opt # {<<>>}

\* A bug: the code of the snippet is not searched
MatchesQueryNoCode(snippet, lowerSearchQuery) ==
    \/ Includes(ToLowerCase(snippet.title), lowerSearchQuery)
    \/ Includes(ToLowerCase(snippet.description), lowerSearchQuery)

\* matchesQuery, for the lower-cased query
MatchesQuery(snippet, lowerSearchQuery) ==
    \/ Includes(ToLowerCase(snippet.title), lowerSearchQuery)
    \/ Includes(ToLowerCase(snippet.description), lowerSearchQuery)
    \/ Includes(ToLowerCase(snippet.code), lowerSearchQuery)

\* A bug: every tag of the criterion has to be on the snippet
HasMatchingTagEvery(snippet, tags) ==
    \A i \in DOMAIN tags : \E j \in DOMAIN snippet.tags :
        snippet.tags[j] = tags[i]

\* hasMatchingTag: filter.tags.some((tag) => snippet.tags.includes(tag))
HasMatchingTag(snippet, tags) ==
    \E i \in DOMAIN tags : \E j \in DOMAIN snippet.tags :
        snippet.tags[j] = tags[i]

\* A bug: favorite is tested for truth, so favorite: false filters nothing
MatchesFavoriteTruthy(snippet, filter) ==
    /\ Truthy(filter.query) =>
         MatchesQuery(snippet, ToLowerCase(Coalesce(filter.query, <<>>)))
    /\ Truthy(filter.language) => snippet.language \in filter.language
    /\ Truthy(filter.category) => snippet.category \in filter.category
    /\ (filter.tags # {} /\ filter.tags # {<<>>}) =>
         HasMatchingTag(snippet, Coalesce(filter.tags, <<>>))
    /\ filter.favorite = {TRUE} => snippet.favorite \in filter.favorite

\* The predicate of filter's snippets.filter(...)
Matches(snippet, filter) ==
    /\ Truthy(filter.query) =>
         MatchesQuery(snippet, ToLowerCase(Coalesce(filter.query, <<>>)))
    /\ Truthy(filter.language) => snippet.language \in filter.language
    /\ Truthy(filter.category) => snippet.category \in filter.category
    /\ (filter.tags # {} /\ filter.tags # {<<>>}) =>
         HasMatchingTag(snippet, Coalesce(filter.tags, <<>>))
    /\ filter.favorite # {} => snippet.favorite \in filter.favorite

\* A bug: the strings are compared as they are, upper case before lower
LessValCaseSensitive(a, b, field) ==
    IF field \in {"createdAt", "updatedAt"}
    THEN GetTime(a[field]) < GetTime(b[field])
    ELSE IF field = "favorite"
    THEN (IF a.favorite THEN 1 ELSE 0) < (IF b.favorite THEN 1 ELSE 0)
    ELSE StrLess(a[field], b[field])

\* A bug: the boolean is converted to 0 for true and 1 for false
LessValFavoriteFirst(a, b, field) ==
    IF field \in {"createdAt", "updatedAt"}
    THEN GetTime(a[field]) < GetTime(b[field])
    ELSE IF field = "favorite"
    THEN (IF a.favorite THEN 0 ELSE 1) < (IF b.favorite THEN 0 ELSE 1)
    ELSE StrLess(ToLowerCase(a[field]), ToLowerCase(b[field]))

\* aVal < bVal after the comparator's conversions: instants for the
\* timestamps, 0 and 1 for the boolean, lower-cased text for the strings
LessVal(a, b, field) ==
    IF field \in {"createdAt", "updatedAt"}
    THEN GetTime(a[field]) < GetTime(b[field])
    ELSE IF field = "favorite"
    THEN (IF a.favorite THEN 1 ELSE 0) < (IF b.favorite THEN 1 ELSE 0)
    ELSE StrLess(ToLowerCase(a[field]), ToLowerCase(b[field]))

\* The comparator of sortSnippets
Compare(a, b, sort) ==
    LET comparison == IF LessVal(a, b, sort.field) THEN -1
                      ELSE IF LessVal(b, a, sort.field) THEN 1
                      ELSE 0
    IN IF sort.order = "asc" THEN comparison ELSE -comparison

\* Array.prototype.sort is stable: x, which came after everything in sorted,
\* goes in front of the first element it is strictly smaller than
RECURSIVE InsertSorted(_, _, _)
InsertSorted(x, sorted, sort) ==
    IF sorted = <<>> THEN <<x>>
    ELSE IF Compare(x, Head(sorted), sort) < 0 THEN <<x>> \o sorted
    ELSE <<Head(sorted)>> \o InsertSorted(x, Tail(sorted), sort)

RECURSIVE SortPrefix(_, _, _)
SortPrefix(snippets, n, sort) ==
    IF n = 0 THEN <<>>
    ELSE InsertSorted(snippets[n], SortPrefix(snippets, n - 1, sort), sort)

\* A bug: descending is the ascending result turned around
SortSnippetsReversing(snippets, sort) ==
    LET ascending == SortPrefix(snippets, Len(snippets),
                                [sort EXCEPT !.order = "asc"])
    IN IF sort.order = "asc" THEN ascending
       ELSE [i \in DOMAIN ascending |-> ascending[Len(ascending) + 1 - i]]

\* [...snippets].sort(comparator)
SortSnippets(snippets, sort) == SortPrefix(snippets, Len(snippets), sort)

\* A bug: without sortBy the newest record comes first
FilterResultNewestFirst(snippets, filter) ==
    LET Keep(snippet) == Matches(snippet, filter)
        filtered == SelectSeq(snippets, Keep)
    IN SortSnippets(filtered,
           [field |-> Coalesce(filter.sortBy, "createdAt"),
            order |-> Coalesce(filter.sortOrder,
                               IF filter.sortBy = {} THEN "desc" ELSE "asc")])

\* What filter(filter) computes from the array it read
FilterResult(snippets, filter) ==
    LET Keep(snippet) == Matches(snippet, filter)
        filtered == SelectSeq(snippets, Keep)
    IN IF filter.sortBy # {}
       THEN SortSnippets(filtered,
                [field |-> Coalesce(filter.sortBy, "title"),
                 order |-> Coalesce(filter.sortOrder, "asc")])
       ELSE filtered

NoCriteria ==
    [query |-> {}, language |-> {}, category |-> {}, tags |-> {},
     favorite |-> {}, sortBy |-> {}, sortOrder |-> {}]

\* SnippetFilter values of the lifecycle specification
FilterInputs ==
    {NoCriteria,
     [NoCriteria EXCEPT !.favorite = {FALSE}, !.sortBy = {"title"},
                        !.sortOrder = {"desc"}],
     [NoCriteria EXCEPT !.tags = {<<"t">>}, !.language = {LangGo},
                        !.sortBy = {"updatedAt"}]}

Queries == {<<>>, <<"B">>}

\* A bug: the sort is done on the array that was read, and the array
\* written back
FilterWritesBack(p, filter) ==
    /\ Issue(p, "filter", 0, filter)
    /\ LET rd == ReadJSONFile IN
       IF ~rd.ok THEN Settle(p, "filter", 0, filter, Threw(StorageReadError), 0)
       ELSE Persist(p, "filter", 0, filter, FilterResult(rd.data, filter),
                    Returned("array", FilterResult(rd.data, filter)), ReadNo(p))
    /\ UNCHANGED <<clock, nextId>>

Filter(p, filter) ==
    /\ Issue(p, "filter", 0, filter)
    /\ LET rd == ReadJSONFile IN
       IF ~rd.ok THEN Settle(p, "filter", 0, filter, Threw(StorageReadError), 0)
       ELSE Settle(p, "filter", 0, filter,
                   Returned("array", FilterResult(rd.data, filter)), ReadNo(p))
    /\ UNCHANGED <<clock, nextId>>

\* A bug: search orders what it found by title
SearchSortedByTitle(p, searchQuery) ==
    /\ Issue(p, "search", 0, searchQuery)
    /\ LET rd == ReadJSONFile IN
       IF ~rd.ok
       THEN Settle(p, "search", 0, searchQuery, Threw(StorageReadError), 0)
       ELSE Settle(p, "search", 0, searchQuery,
                   Returned("array",
                       FilterResult(rd.data, [NoCriteria EXCEPT !.query = {searchQuery},
                                                                !.sortBy = {"title"}])),
                   ReadNo(p))
    /\ UNCHANGED <<clock, nextId>>

\* search(searchQuery): this.filter({ query: searchQuery })
Search(p, searchQuery) ==
    /\ Issue(p, "search", 0, searchQuery)
    /\ LET rd == ReadJSONFile IN
       IF ~rd.ok
       THEN Settle(p, "search", 0, searchQuery, Threw(StorageReadError), 0)
       ELSE Settle(p, "search", 0, searchQuery,
                   Returned("array",
                       FilterResult(rd.data, [NoCriteria EXCEPT !.query = {searchQuery}])),
                   ReadNo(p))
    /\ UNCHANGED <<clock, nextId>>

---------------------------------------------------------------------------
(* The environment *)

External(name) ==
    /\ op' = [name |-> name, id |-> 0, input |-> <<>>, prev |-> op.name]
    /\ UNCHANGED <<clock, nextId, created, nOps, calls>>

\* fs.mkdir starts or stops failing (permissions, an invalid path, a full disk)
MkdirFault ==
    /\ env' = [env EXCEPT !.mkdirFails = ~env.mkdirFails]
    /\ External("mkdirFault")
    /\ UNCHANGED <<dirExists, file>>

\* fs.writeFile starts or stops failing
WriteFault ==
    /\ env' = [env EXCEPT !.writeFails = ~env.writeFails]
    /\ External("writeFault")
    /\ UNCHANGED <<dirExists, file>>

\* Something else puts text that is no JSON in place of snippets.json
ExternalCorrupt ==
    /\ file.state # "corrupt"
    /\ dirExists' = TRUE
    /\ file' = CorruptFile
    /\ External("externalCorrupt")
    /\ UNCHANGED env

\* Time passes
Tick ==
    /\ clock < MaxClock
    /\ clock' = clock + 1
    /\ UNCHANGED <<dirExists, file, env, nextId, created, nOps, op, calls>>

\* The events of the environment that op records
Events == {"mkdirFault", "writeFault", "externalCorrupt"}

---------------------------------------------------------------------------
(* The lifecycle specification: one caller, who awaits each call before    *)
(* the next, on a store constructed over a directory that was never        *)
(* written; the caller may pass to add a record that is in the store       *)

Init ==
    /\ dirExists = FALSE
    /\ file = NoFile
    /\ env = [mkdirFails |-> FALSE, writeFails |-> FALSE]
    /\ clock = 0
    /\ nextId = 1
    /\ created = {}
    /\ nOps = 0
    /\ op = NoOp
    /\ calls = NoCalls

Next ==
    \/ \E input \in CreateInputs : Add(1, input)
    \/ \E i \in DOMAIN file.data : Add(1, SnippetAsInput(file.data[i]))
    \/ GetAll(1)
    \/ \E id \in IdArgs : GetById(1, id)
    \/ \E id \in IdArgs : \E input \in UpdateInputs : Update(1, id, input)
    \/ \E id \in IdArgs : Delete(1, id)
    \/ DeleteAll(1)
    \/ \E filter \in FilterInputs : Filter(1, filter)
    \/ \E searchQuery \in Queries : Search(1, searchQuery)
    \/ Cleanup(1)
    \/ EnsureStoragePath(1)
    \/ WriteFileOpen(1)
    \/ WriteFileWrite(1)
    \/ ExternalCorrupt
    \/ Tick

Spec == Init /\ [][Next]_vars

---------------------------------------------------------------------------
(* The fault specification: the lifecycle in a file system in which        *)
(* fs.mkdir and fs.writeFile start and stop failing at any time, between   *)
(* two calls and between two awaits of one call                            *)

FaultCreateInputs == {c \in CreateInputs : c.tags = {}}
FaultUpdateInputs == {u \in UpdateInputs : PresentFields(u) # {}}

NextFaults ==
    \/ \E input \in FaultCreateInputs : Add(1, input)
    \/ GetAll(1)
    \/ \E id \in IdArgs : GetById(1, id)
    \/ \E id \in IdArgs : \E input \in FaultUpdateInputs : Update(1, id, input)
    \/ \E id \in IdArgs : Delete(1, id)
    \/ DeleteAll(1)
    \/ Filter(1, NoCriteria)
    \/ Search(1, <<>>)
    \/ EnsureStoragePath(1)
    \/ WriteFileOpen(1)
    \/ WriteFileWrite(1)
    \/ MkdirFault
    \/ WriteFault
    \/ ExternalCorrupt

SpecFaults == Init /\ [][NextFaults]_vars

---------------------------------------------------------------------------
(* The update specification: one update, with any UpdateSnippetInput, on a *)
(* collection that earlier adds have written                               *)

\* The collections n adds at instant 0 leave in the file
RECURSIVE AddedCollections(_)
AddedCollections(n) ==
    IF n = 0 THEN {<<>>}
    ELSE {Append(data, SnippetToJSON(NewSnippet(input, n, 0, 0))) :
            data \in AddedCollections(n - 1), input \in AllCreateInputs}

InitUpdate ==
    /\ dirExists = TRUE
    /\ \E n \in 1..MaxIds : \E data \in AddedCollections(n) :
         /\ file = JsonFile(data)
         /\ nextId = n + 1
         /\ created = 1..n
    /\ env = [mkdirFails |-> FALSE, writeFails |-> FALSE]
    /\ clock \in 0..MaxClock
    /\ nOps = 0
    /\ op = NoOp
    /\ calls = NoCalls

NextUpdate ==
    \/ nOps = 0 /\ \E id \in IdArgs : \E input \in AllUpdateInputs : Update(1, id, input)
    \/ EnsureStoragePath(1)
    \/ WriteFileOpen(1)
    \/ WriteFileWrite(1)

SpecUpdate == InitUpdate /\ [][NextUpdate]_vars

---------------------------------------------------------------------------
(* The query specifications: one filter, with any SnippetFilter, or a      *)
(* search and a filter, on a collection that adds and updates have written *)

StoredSnippet(id, title, description, code, language, category, tags, favorite, createdAt, updatedAt) ==
    [id |-> id, title |-> title, description |-> description, code |-> code,
     language |-> language, category |-> category, tags |-> tags,
     favorite |-> favorite, extra |-> {},
     createdAt |-> IsoString(createdAt), updatedAt |-> IsoString(updatedAt)]

\* The records the stored collections are made of
StoredSnippets ==
    <<StoredSnippet(1, <<"b">>, <<>>, <<"d">>, LangGo, CatOther,
                    <<>>, FALSE, 0, 2),
      StoredSnippet(2, <<"B">>, <<"c", "B">>, <<"x">>, LangR, CatOther,
                    <<"t">>, TRUE, 0, 0),
      StoredSnippet(3, <<"a">>, <<"b">>, <<"x">>, LangGo, CatConfig,
                    <<"u">>, FALSE, 1, 1),
      StoredSnippet(4, <<"A", "b">>, <<>>, <<"C", "b">>, LangR, CatConfig,
                    <<"t", "u">>, TRUE, 1, 2),
      StoredSnippet(5, <<"x">>, <<"x">>, <<"x">>, LangGo, CatOther,
                    <<"v">>, TRUE, 2, 2),
      StoredSnippet(6, <<"b">>, <<>>, <<"B">>, LangR, CatOther,
                    <<>>, FALSE, 2, 2)>>

\* The collections of at most MaxLen of these records, each at most once,
\* in an order adds can have left: createdAt does not decrease along the file
StoredCollections ==
    LET picks == UNION {[1..n -> DOMAIN StoredSnippets] : n \in 0..MaxLen}
        ok(s) == \A i, j \in DOMAIN s :
                    i < j => /\ s[i] # s[j]
                             /\ GetTime(StoredSnippets[s[i]].createdAt)
                                  <= GetTime(StoredSnippets[s[j]].createdAt)
    IN {[i \in DOMAIN s |-> StoredSnippets[s[i]]] : s \in {t \in picks : ok(t)}}

SortFields ==
    {"createdAt", "updatedAt", "title", "language", "category", "favorite"}

QueryTexts == {<<>>, <<"b">>, <<"C", "B">>}

\* SnippetFilter values: every criterion absent or present
AllFilterInputs ==
    [query : Optional(QueryTexts),
     language : Optional({LangGo}), category : Optional({CatConfig}),
     tags : Optional({<<>>, <<"t">>, <<"t", "u">>}),
     favorite : Optional(BOOLEAN),
     sortBy : Optional(SortFields), sortOrder : Optional({"asc", "desc"})]

InitFilter ==
    /\ dirExists = TRUE
    /\ file \in {JsonFile(data) : data \in StoredCollections}
    /\ env = [mkdirFails |-> FALSE, writeFails |-> FALSE]
    /\ clock = MaxClock
    /\ nextId = MaxIds + 1
    /\ created = {}
    /\ nOps = 0
    /\ op = NoOp
    /\ calls = NoCalls

NextFilter ==
    /\ nOps = 0
    /\ \E filter \in AllFilterInputs : Filter(1, filter)

SpecFilter == InitFilter /\ [][NextFilter]_vars

\* A search and a filter by query, one after the other
NextSearch ==
    /\ nOps < MaxSearchOps
    /\ \/ \E searchQuery \in QueryTexts : Search(1, searchQuery)
       \/ \E searchQuery \in QueryTexts :
             Filter(1, [NoCriteria EXCEPT !.query = {searchQuery}])

SpecSearch == InitFilter /\ [][NextSearch]_vars

---------------------------------------------------------------------------
(* The add specification: adds, one after the other, on a store that was   *)
(* never written, with tags and favorite given, given empty or false, or   *)
(* left out, and with or without properties the input type does not        *)
(* declare: one that Snippet does not have, or the id and the createdAt of *)
(* a Snippet                                                               *)

WideCreateInputs ==
    {c \in [title : {<<"A", "b">>}, description : {<<"b">>}, code : {<<"c">>},
            language : {LangGo}, category : {CatOther},
            tags : Optional({<<>>, <<"t", "u">>}), favorite : Optional(BOOLEAN),
            id : Optional({1}), createdAt : Optional({IsoString(0)}),
            extra : Optional({7})] :
        c.id = {} <=> c.createdAt = {}}

NextAdd ==
    \/ nOps < MaxAdds /\ \E input \in WideCreateInputs : Add(1, input)
    \/ EnsureStoragePath(1)
    \/ WriteFileOpen(1)
    \/ WriteFileWrite(1)

SpecAdd == Init /\ [][NextAdd]_vars

---------------------------------------------------------------------------
(* The concurrent specification: two callers issue an add each on one file *)
(* without awaiting the other                                              *)

InitConc == Init

NextConc ==
    \/ \E p \in Callers : \E input \in AllCreateInputs :
          calls[p].pc = "idle" /\ Add(p, input)
    \/ \E p \in Callers : EnsureStoragePath(p)
    \/ \E p \in Callers : WriteFileOpen(p)
    \/ \E p \in Callers : WriteFileWrite(p)
    \/ Tick

SpecConc == InitConc /\ [][NextConc]_vars

---------------------------------------------------------------------------
(* The race specification: two callers issue an add, an update, a delete   *)
(* or a deleteAll each, without awaiting the other, on a file that earlier *)
(* adds have written                                                       *)

InitRace ==
    /\ dirExists = TRUE
    /\ \E n \in 1..MaxIds : \E data \in AddedCollections(n) :
         /\ file = JsonFile(data)
         /\ nextId = n + 1
         /\ created = 1..n
    /\ env = [mkdirFails |-> FALSE, writeFails |-> FALSE]
    /\ clock = 0
    /\ nOps = 0
    /\ op = NoOp
    /\ calls = NoCalls

NextRace ==
    \/ \E p \in Callers : \E input \in CreateInputs :
          calls[p].pc = "idle" /\ Add(p, input)
    \/ \E p \in Callers : \E i \in DOMAIN file.data :
          calls[p].pc = "idle" /\ Add(p, SnippetAsInput(file.data[i]))
    \/ \E p \in Callers : \E id \in IdArgs : \E input \in UpdateInputs :
          calls[p].pc = "idle" /\ Update(p, id, input)
    \/ \E p \in Callers : \E id \in IdArgs :
          calls[p].pc = "idle" /\ Delete(p, id)
    \/ \E p \in Callers : calls[p].pc = "idle" /\ DeleteAll(p)
    \/ \E p \in Callers : EnsureStoragePath(p)
    \/ \E p \in Callers : WriteFileOpen(p)
    \/ \E p \in Callers : WriteFileWrite(p)
    \/ Tick

SpecRace == InitRace /\ [][NextRace]_vars

---------------------------------------------------------------------------
(* Properties *)

\* The call of the one caller of the lifecycle specifications, and what it
\* returned or threw
call == calls[1]
ret == calls[1].ret

\* The step starts the call `name`; a call that does not write ends in it
Step(name) == nOps' = nOps + 1 /\ op'.name = name

\* The step is the fs.mkdir, the open or the write of the pending call of p
AtMkdir(p) == calls[p].pc = "mkdir" /\ calls'[p] # calls[p]
AtOpen(p) == calls[p].pc = "open" /\ calls'[p] # calls[p]
AtWrite(p) == calls[p].pc = "write" /\ calls'[p] # calls[p]

\* The step is the one in which the call `name` returns or throws
Ends(name) ==
    /\ call'.name = name /\ call'.pc = "done"
    /\ nOps' = nOps + 1 \/ call.pc # "done"

UniqueIds(data) ==
    \A i, j \in DOMAIN data : data[i].id = data[j].id => i = j

PlainFields ==
    {"id", "title", "description", "code", "language", "category", "tags", "favorite"}

\* No record of data has the identifier
NoMatchIn(data, id) == \A i \in DOMAIN data : data[i].id # id

\* The collection an operation reads from the file as it is
Stored == IF file.state = "json" THEN file.data ELSE <<>>

\* The file holds the collection, each record as JSON.stringify writes it
Holds(f, snippets) ==
    /\ f.state = "json"
    /\ Len(f.data) = Len(snippets)
    /\ \A i \in DOMAIN snippets :
          /\ \A k \in PlainFields \cup {"extra"} : f.data[i][k] = snippets[i][k]
          /\ \A k \in {"createdAt", "updatedAt"} :
                f.data[i][k] = [type |-> "string", ms |-> snippets[i][k].ms]

\* C1: with calls made one at a time on a store that started empty, no two
\* records of the persisted collection have the same identifier, and the
\* record an add returns has an identifier no earlier add returned.  It does
\* not hold: an input that has an id keeps it.
C1_UniqueIdentifiers ==
    /\ [](UniqueIds(file.data))
    /\ [][Ends("add") /\ ret'.kind = "snippet" => ret'.val.id \notin created]_vars

\* C2: getById right after add returns a record deep-equal to the one add
\* returned, createdAt and updatedAt included.  It does not hold: add
\* returns Date objects and getById the ISO strings read from the file, and
\* after an add that kept the id of its input getById returns the first
\* record with that id, which is another.
C2_RoundTripDeepEqual ==
    [][(op.name = "add" /\ ret.kind = "snippet"
        /\ Step("getById") /\ op'.id = ret.val.id) => ret' = ret]_vars

\* The index of the first record with this identifier
FirstWithId(data, id) ==
    CHOOSE i \in DOMAIN data :
        data[i].id = id /\ \A j \in 1..(i - 1) : data[j].id # id

\* C3: an update of a stored record overwrites exactly the fields present in
\* the input, present values false, "" and [] included, and leaves every
\* absent field, tags included, as it was: in the record it returns and in
\* the one it writes to the file.
C3_UpdateOverwritesExactlyPresentFields ==
    [][/\ (Step("update") /\ file.state = "json" /\ ~NoMatchIn(file.data, op'.id)) =>
            LET old == file.data[FirstWithId(file.data, op'.id)]
                new == call'.snippets[FirstWithId(file.data, op'.id)]
                out == call'.result.val
            IN /\ call'.pc = "mkdir" /\ call'.result.kind = "snippet"
               /\ \A f \in UpdatableFields :
                     IF op'.input[f] # {}
                     THEN new[f] \in op'.input[f] /\ out[f] \in op'.input[f]
                     ELSE new[f] = old[f] /\ out[f] = old[f]
       /\ (call.name = "update" /\ AtWrite(1)) =>
            /\ ret' = call.result
            /\ Holds(file', call.snippets)]_vars

C3_Witness ==
    /\ call.name = "update" /\ ret.kind = "snippet"
    /\ call.input.title = {<<>>} /\ call.input.favorite = {FALSE}
    /\ call.input.tags = {} /\ call.input.description = {}
    /\ ret.val.title = <<>> /\ ret.val.favorite = FALSE
    /\ ret.val.tags = <<"t">> /\ ret.val.description = <<"b">>
    /\ file.data[FirstWithId(file.data, call.id)].tags = <<"t">>
    /\ file.data[FirstWithId(file.data, call.id)].title = <<>>

\* C4: an update leaves the identifier and createdAt of every record as
\* they are, of the updated one too, whatever updates came before, and sets
\* the updatedAt of the updated record to the current time, which is not
\* earlier than the updatedAt it had; the file it writes holds the records
\* so.
C4_CreatedAtFixedUpdatedAtRefreshed ==
    [][/\ (Step("update") /\ call'.pc = "mkdir") =>
            LET i == FirstWithId(file.data, op'.id)
                out == call'.result.val
            IN /\ Len(call'.snippets) = Len(file.data)
               /\ \A k \in DOMAIN file.data :
                     /\ call'.snippets[k].id = file.data[k].id
                     /\ GetTime(call'.snippets[k].createdAt)
                          = GetTime(file.data[k].createdAt)
               /\ call'.snippets[i] = out
               /\ out.id = op'.id
               /\ GetTime(out.updatedAt) = clock
               /\ GetTime(out.updatedAt) >= GetTime(file.data[i].updatedAt)
       /\ (call.name = "update" /\ AtWrite(1) /\ file.state = "empty") =>
            /\ ret' = call.result
            /\ Holds(file', call.snippets)]_vars

C4_Witness ==
    /\ call.name = "update" /\ op.name = "update" /\ op.prev = "update"
    /\ ret.kind = "snippet"
    /\ GetTime(ret.val.updatedAt) > GetTime(ret.val.createdAt)
    /\ file.data[FirstWithId(file.data, call.id)].updatedAt = IsoString(clock)
    /\ file.data[FirstWithId(file.data, call.id)].createdAt = IsoString(0)

\* C5: with the file readable or absent, getById, update and delete with an
\* identifier that matches no record raise nothing, also while mkdir and
\* writeFile would fail: getById returns null, update returns null, delete
\* returns false.
C5_NotFoundIsNoError ==
    [][(file.state \in {"absent", "json"} /\ NoMatchIn(file.data, op'.id)) =>
         /\ Step("getById") => ret' = Returned("null", <<>>)
         /\ Step("update") => ret' = Returned("null", <<>>)
         /\ Step("delete") => ret' = Returned("boolean", FALSE)]_vars

C5_Witness ==
    /\ op.name = "update" /\ call.name = "update" /\ ret.kind = "null"
    /\ call.id = 2
    /\ Len(file.data) = 1 /\ file.data[1].id = 1
    /\ env.mkdirFails /\ env.writeFails

\* C6: delete with an identifier that matches no record returns false and
\* leaves the collection as it is; delete with the identifier of a stored
\* record goes on to write a collection that is one shorter and to return
\* true, and getById with that identifier then returns null.  It does not
\* hold: after an add that kept the id of its input two records have the
\* identifier, and delete takes both.
C6_Delete ==
    [][/\ (Step("delete") /\ file.state \in {"absent", "json"}) =>
            IF NoMatchIn(file.data, op'.id)
            THEN /\ ret' = Returned("boolean", FALSE)
                 /\ file' = file
            ELSE /\ call'.pc = "mkdir"
                 /\ call'.result = Returned("boolean", TRUE)
                 /\ Len(call'.snippets) = Len(file.data) - 1
       /\ (op.name = "delete" /\ ret = Returned("boolean", TRUE)
           /\ Step("getById") /\ op'.id = op.id) =>
            ret' = Returned("null", <<>>)]_vars

\* C7: deleteAll is idempotent: a deleteAll raises nothing and, nothing
\* else touching the file meanwhile, leaves the empty collection in the
\* file whatever it held; so does a second deleteAll right after it, and
\* getAll after either returns the empty sequence.
C7_DeleteAllIdempotent ==
    [][/\ (call'.name = "deleteAll" /\ call' # call) => ret'.kind # "error"
       /\ (call.name = "deleteAll" /\ AtWrite(1) /\ file.state = "empty") =>
            /\ ret' = Returned("void", <<>>)
            /\ file' = JsonFile(<<>>)
       /\ (op.name = "deleteAll" /\ op.prev = "deleteAll" /\ Ends("deleteAll")) =>
            /\ ret' = Returned("void", <<>>)
            /\ file' = JsonFile(<<>>)
       /\ (op.name = "deleteAll" /\ ret.kind = "void" /\ Step("getAll")) =>
            ret' = Returned("array", <<>>)]_vars

C7_Witness ==
    /\ op.name = "deleteAll" /\ op.prev = "deleteAll" /\ ret.kind = "void"
    /\ created # {}
    /\ file = JsonFile(<<>>)

\* C8: when the file does not exist, every operation that reads it takes the
\* collection to be empty and does not fail: getAll, filter and search
\* return the empty sequence, getById and update null, delete false, and
\* add goes on to write a collection of the new record alone.
C8_AbsentFileIsEmptyCollection ==
    [][/\ file.state = "absent" =>
            /\ Step("getAll") => ret' = Returned("array", <<>>)
            /\ Step("filter") => ret' = Returned("array", <<>>)
            /\ Step("search") => ret' = Returned("array", <<>>)
            /\ Step("getById") => ret' = Returned("null", <<>>)
            /\ Step("update") => ret' = Returned("null", <<>>)
            /\ Step("delete") => ret' = Returned("boolean", FALSE)
            /\ Step("add") =>
                 /\ call'.pc = "mkdir"
                 /\ call'.result.kind = "snippet"
                 /\ call'.snippets = <<call'.result.val>>
       /\ (call.name = "add" /\ AtWrite(1) /\ file.state = "empty") =>
            /\ ret' = call.result
            /\ file' = JsonFile(JSONStringify(call.snippets))]_vars

C8_Witness ==
    /\ op.name = "getAll" /\ ret = Returned("array", <<>>)
    /\ nOps = 1 /\ op.prev = "none"
    /\ file.state = "absent" /\ ~dirExists

\* C9: when the file exists and cannot be parsed, getAll, getById, update,
\* delete, filter and search fail with a StorageReadError and leave the
\* file as it is; none returns an empty or partial collection.
C9_CorruptFileIsReadError ==
    [][(file.state \in {"corrupt", "empty"}
        /\ nOps' = nOps + 1
        /\ op'.name \in {"getAll", "getById", "update", "delete", "filter", "search"}) =>
         /\ ret' = Threw(StorageReadError)
         /\ file' = file]_vars

C9_Witness ==
    /\ op.name = "filter" /\ op.prev = "externalCorrupt"
    /\ ret = Threw(StorageReadError)
    /\ created # {}

ReadsFirst == {"add", "getAll", "getById", "update", "delete", "filter", "search"}

\* C10: a failure of one of the eight operations is of exactly one of three
\* kinds, fixed by the step that failed: StorageReadError when the read or
\* parse of an existing file fails, StorageDirectoryError when fs.mkdir
\* fails, StorageWriteError when fs.writeFile fails, in its open or in its
\* write; the three differ, and no step fails otherwise.
C10_ErrorKindByFailedStep ==
    /\ [](ret.kind = "error" =>
            ret.val \in {StorageReadError, StorageDirectoryError, StorageWriteError})
    /\ [][call' # call =>
            LET readFails == /\ nOps' = nOps + 1
                             /\ op'.name \in ReadsFirst
                             /\ file.state \notin {"absent", "json"}
                mkdirFails == AtMkdir(1) /\ env.mkdirFails
                writeFails == (AtOpen(1) \/ AtWrite(1)) /\ env.writeFails
            IN /\ ret'.kind = "error" <=> (readFails \/ mkdirFails \/ writeFails)
               /\ readFails <=> ret' = Threw(StorageReadError)
               /\ mkdirFails <=> ret' = Threw(StorageDirectoryError)
               /\ writeFails <=> ret' = Threw(StorageWriteError)
               /\ Cardinality({StorageReadError, StorageDirectoryError,
                               StorageWriteError}) = 3]_vars

C10_Witness ==
    /\ call.name = "update" /\ ret = Threw(StorageDirectoryError)
    /\ env.mkdirFails /\ env.writeFails
    /\ file.state = "json" /\ ~NoMatchIn(file.data, call.id)

\* C11: two adds made concurrently race on read-modify-write: when both read
\* the file before either opened it for writing and both returned their
\* record without error, the file does not hold the record of the one that
\* wrote first.  When the writes did not overlap it holds the record of the
\* add that wrote last and nothing else; when they did, that or a text that
\* is no JSON.
C11_ConcurrentAddsLastWriteWins ==
    \A p, q \in Callers :
        (/\ p # q
         /\ calls[p].name = "add" /\ calls[q].name = "add"
         /\ calls[p].ret.kind = "snippet" /\ calls[q].ret.kind = "snippet"
         /\ calls[p].readAt < calls[q].openAt
         /\ calls[q].readAt < calls[p].openAt
         /\ calls[p].wroteAt < calls[q].wroteAt)
        => /\ calls[p].ret.val.id # calls[q].ret.val.id
           /\ \A i \in DOMAIN file.data : file.data[i].id # calls[p].ret.val.id
           /\ file \in {JsonFile(<<SnippetToJSON(calls[q].ret.val)>>), CorruptFile}
           /\ calls[p].wroteAt < calls[q].openAt =>
                file = JsonFile(<<SnippetToJSON(calls[q].ret.val)>>)

C11_Witness ==
    /\ calls[1].name = "add" /\ calls[2].name = "add"
    /\ calls[1].ret.kind = "snippet" /\ calls[2].ret.kind = "snippet"
    /\ calls[1].readAt = 1 /\ calls[2].readAt = 2
    /\ calls[2].openAt = 3 /\ calls[2].wroteAt = 4
    /\ calls[1].openAt = 5 /\ calls[1].wroteAt = 6
    /\ Len(file.data) = 1 /\ file.data[1].id = calls[1].ret.val.id

---------------------------------------------------------------------------
(* Properties of filter and search *)

\* A filter has returned: ret.val is what it gave for op.input on file.data
Filtered == op.name = "filter" /\ ret.kind = "array"

InResult(snippet) == \E i \in DOMAIN ret.val : ret.val[i] = snippet

\* The criteria of filter other than the named one are absent
OnlyCriterion(filter, name) ==
    \A c \in {"query", "language", "category", "tags", "favorite"} \ {name} :
        filter[c] = {}

\* C12: filter with no criteria returns every record of the collection in
\* the order getAll returns them, the order of the file, which is the order
\* in which the records were added.
C12_NoCriteriaReturnsAllInInsertionOrder ==
    /\ [][(Step("filter") /\ op'.input = NoCriteria /\ ret'.kind = "array")
            => /\ ret'.val = file.data
               /\ \A i, j \in DOMAIN ret'.val :
                     i < j => GetTime(ret'.val[i].createdAt)
                                <= GetTime(ret'.val[j].createdAt)]_vars
    /\ [][(op.name = "getAll" /\ ret.kind = "array" /\ Step("filter")
            /\ op'.input = NoCriteria)
            => ret' = ret]_vars

C12_Witness ==
    /\ Filtered /\ op.input = NoCriteria /\ op.prev = "add"
    /\ Len(ret.val) = 2
    /\ GetTime(ret.val[1].createdAt) < GetTime(ret.val[2].createdAt)

\* The letters c and d are the same up to case
SameLetter(c, d) ==
    \/ c = d
    \/ \E i \in DOMAIN Upper : {c, d} = {Upper[i], Lower[i]}

\* text contains part as a contiguous piece, letter case ignored
ContainsFolded(text, part) ==
    \E from \in 1..(Len(text) + 1) :
        /\ from + Len(part) - 1 <= Len(text)
        /\ \A i \in 1..Len(part) : SameLetter(text[from + i - 1], part[i])

SharesTag(snippet, tags) ==
    {snippet.tags[i] : i \in DOMAIN snippet.tags}
        \cap {tags[i] : i \in DOMAIN tags} # {}

\* The five criteria, each as the specification words it
PassesQuery(snippet, filter) ==
    \A q \in filter.query :
        \/ ContainsFolded(snippet.title, q)
        \/ ContainsFolded(snippet.description, q)
        \/ ContainsFolded(snippet.code, q)

PassesLanguage(snippet, filter) ==
    \A l \in filter.language : snippet.language = l

PassesCategory(snippet, filter) ==
    \A c \in filter.category : snippet.category = c

PassesTags(snippet, filter) ==
    \A tags \in filter.tags : tags # <<>> => SharesTag(snippet, tags)

PassesFavorite(snippet, filter) ==
    \A fav \in filter.favorite : snippet.favorite = fav

\* C13: with a non-empty tags sequence a record passes the tag criterion
\* exactly when it shares at least one tag with the sequence; with an empty
\* tags sequence filter returns what it returns with tags omitted.
C13_TagsAnyOf ==
    Filtered =>
        \A tags \in op.input.tags :
            IF tags = <<>>
            THEN ret.val = FilterResult(file.data, [op.input EXCEPT !.tags = {}])
            ELSE \A i \in DOMAIN file.data :
                    /\ InResult(file.data[i]) => SharesTag(file.data[i], tags)
                    /\ (OnlyCriterion(op.input, "tags")
                        /\ SharesTag(file.data[i], tags))
                           => InResult(file.data[i])

\* A record with one of two asked tags is returned, one with neither is not
C13_Witness ==
    /\ Filtered /\ op.input.tags = {<<"t", "u">>}
    /\ OnlyCriterion(op.input, "tags")
    /\ Len(file.data) = 3 /\ Len(ret.val) = 2
    /\ \E i \in DOMAIN ret.val : ret.val[i].tags = <<"u">>
    /\ \E i \in DOMAIN ret.val : ret.val[i].tags = <<"t">>

\* C14: a record of the collection is in the result of filter exactly when
\* it satisfies every supplied criterion among query, language, category,
\* tags and favorite; favorite: false is a criterion, and the result holds
\* each such record once.
C14_CriteriaConjoined ==
    Filtered =>
        /\ \A i \in DOMAIN file.data :
              InResult(file.data[i]) <=>
                  /\ PassesQuery(file.data[i], op.input)
                  /\ PassesLanguage(file.data[i], op.input)
                  /\ PassesCategory(file.data[i], op.input)
                  /\ PassesTags(file.data[i], op.input)
                  /\ PassesFavorite(file.data[i], op.input)
        /\ \A i \in DOMAIN ret.val :
              \E j \in DOMAIN file.data : file.data[j] = ret.val[i]
        /\ \A i, j \in DOMAIN ret.val : ret.val[i] = ret.val[j] => i = j

\* favorite: false with a language: of three records, only the one that is
\* both not a favourite and in that language is returned
C14_Witness ==
    /\ Filtered /\ op.input.favorite = {FALSE} /\ op.input.language = {LangGo}
    /\ op.input.query = {} /\ op.input.tags = {} /\ op.input.category = {}
    /\ Len(file.data) = 3 /\ Len(ret.val) = 1
    /\ \E i \in DOMAIN file.data :
          file.data[i].favorite /\ file.data[i].language = LangGo
    /\ \E i \in DOMAIN file.data :
          ~file.data[i].favorite /\ file.data[i].language # LangGo

\* C15: the query criterion passes a record exactly when the query, letter
\* case ignored, is a piece of the title, of the description or of the code.
C15_QueryAnyOfThreeTexts ==
    Filtered =>
        \A q \in op.input.query :
            \A i \in DOMAIN file.data :
                LET hit == \/ ContainsFolded(file.data[i].title, q)
                           \/ ContainsFolded(file.data[i].description, q)
                           \/ ContainsFolded(file.data[i].code, q)
                IN /\ InResult(file.data[i]) => hit
                   /\ (OnlyCriterion(op.input, "query") /\ hit)
                          => InResult(file.data[i])

\* The query "CB" finds "cB" in a description and "Cb" in a code, and
\* leaves out a record that has the letters in none of its texts
C15_Witness ==
    /\ Filtered /\ op.input.query = {<<"C", "B">>}
    /\ OnlyCriterion(op.input, "query")
    /\ Len(file.data) = 3 /\ Len(ret.val) = 2
    /\ \E i \in DOMAIN ret.val : ret.val[i].description = <<"c", "B">>
    /\ \E i \in DOMAIN ret.val : ret.val[i].code = <<"C", "b">>

\* C16: on the same collection search(q) and filter({query: q}) return the
\* same records in the same order, whichever of the two is called first,
\* for q empty, lower-case or mixed-case.
C16_SearchIsFilterByQuery ==
    /\ [][(op.name = "search" /\ Step("filter")
            /\ op'.input = [NoCriteria EXCEPT !.query = {op.input}])
            => ret' = ret]_vars
    /\ [][(op.name = "filter" /\ Step("search")
            /\ op.input = [NoCriteria EXCEPT !.query = {op'.input}])
            => ret' = ret]_vars

\* The filter that followed a search returned, for the mixed-case query,
\* two of three records, and not in title order
C16_Witness ==
    /\ Filtered /\ op.prev = "search" /\ op.input.query = {<<"C", "B">>}
    /\ Len(file.data) = 3 /\ Len(ret.val) = 2
    /\ ret.val[1].title = <<"B">> /\ ret.val[2].title = <<"A", "b">>

\* The place of a letter in the alphabet, whatever its case
LetterRank(c) == CHOOSE i \in DOMAIN Upper : c \in {Upper[i], Lower[i]}

\* a comes before b in the dictionary, letter case ignored
FoldedLess(a, b) ==
    \E k \in 1..(Len(a) + 1) :
        /\ k <= Len(b)
        /\ \A i \in 1..(k - 1) : SameLetter(a[i], b[i])
        /\ \/ k = Len(a) + 1
           \/ LetterRank(a[k]) < LetterRank(b[k])

StringFields == {"title", "language", "category"}

\* The sort key of a comes before the sort key of b
KeyBefore(a, b, field) ==
    IF field \in StringFields THEN FoldedLess(a[field], b[field])
    ELSE IF field = "favorite" THEN ~a.favorite /\ b.favorite
    ELSE a[field].ms < b[field].ms

PositionIn(snippets, snippet) ==
    CHOOSE i \in DOMAIN snippets : snippets[i] = snippet

\* result is in the given order of the keys, and records with equal keys
\* are in the order they have in base
SortedBy(result, base, field, order) ==
    \A i, j \in DOMAIN result :
        i < j =>
            IF KeyBefore(result[i], result[j], field) THEN order = "asc"
            ELSE IF KeyBefore(result[j], result[i], field) THEN order = "desc"
            ELSE PositionIn(base, result[i]) < PositionIn(base, result[j])

\* C17: sorted by title, language or category, the result is in the order
\* of the lower-cased values of the field, and records whose lower-cased
\* values are equal keep the order they had before the sort.
C17_StringSortFoldedAndStable ==
    (Filtered /\ op.input.sortBy # {} /\ op.input.sortBy \subseteq StringFields
     /\ op.input.sortOrder # {})
        => \A field \in op.input.sortBy : \A order \in op.input.sortOrder :
               SortedBy(ret.val, file.data, field, order)

\* "a" first, then "b" and "B" in the order of the file, where "b" is first
C17_Witness ==
    /\ Filtered /\ op.input.sortBy = {"title"} /\ op.input.sortOrder = {"asc"}
    /\ Len(ret.val) = 3 /\ ret.val # file.data
    /\ ret.val[1].title = <<"a">>
    /\ ret.val[2].title = <<"b">>
    /\ ret.val[3].title = <<"B">>

\* C18: with sortBy set, filter without sortOrder returns what it returns
\* with sortOrder "asc"; with sortOrder "desc" two records with distinct
\* keys are in the reverse of their ascending order, and two records with
\* equal keys are in the order of the filtered result, as they are ascending.
C18_DescendingNegatesAscending ==
    (Filtered /\ op.input.sortBy # {}) =>
        LET ascending ==
                FilterResult(file.data, [op.input EXCEPT !.sortOrder = {"asc"}])
            field == Coalesce(op.input.sortBy, "title")
        IN /\ op.input.sortOrder = {} => ret.val = ascending
           /\ op.input.sortOrder = {"desc"} =>
                /\ Len(ret.val) = Len(ascending)
                /\ \A i \in DOMAIN ret.val :
                      \E j \in DOMAIN ascending : ascending[j] = ret.val[i]
                /\ \A i, j \in DOMAIN ret.val :
                      i < j =>
                        LET a == ret.val[i]
                            b == ret.val[j]
                        IN IF KeyBefore(a, b, field) \/ KeyBefore(b, a, field)
                           THEN PositionIn(ascending, b) < PositionIn(ascending, a)
                           ELSE /\ PositionIn(ascending, a) < PositionIn(ascending, b)
                                /\ PositionIn(file.data, a) < PositionIn(file.data, b)

\* Descending by favorite: the favourite first, the other two as in the file
C18_Witness ==
    /\ Filtered /\ op.input.sortBy = {"favorite"} /\ op.input.sortOrder = {"desc"}
    /\ Len(file.data) = 3 /\ Len(ret.val) = 3
    /\ ret.val[1] = file.data[2] /\ ret.val[2] = file.data[1]
    /\ ret.val[3] = file.data[3]
    /\ ret.val[1].favorite /\ ~ret.val[2].favorite /\ ~ret.val[3].favorite

Reverse(snippets) ==
    [i \in DOMAIN snippets |-> snippets[Len(snippets) + 1 - i]]

\* C19: sorted by createdAt or updatedAt the result is in the order of the
\* instants, and sorted by favorite the records that are not favourites come
\* before the favourites (after them when descending); so, with no other
\* criterion, descending by createdAt is the file turned around when
\* createdAt increases along it, and descending by favorite puts every
\* favourite before every other record.
C19_SortKeyByFieldType ==
    (Filtered /\ op.input.sortBy # {}
     /\ op.input.sortBy \subseteq {"createdAt", "updatedAt", "favorite"})
        => LET field == Coalesce(op.input.sortBy, "title")
               order == Coalesce(op.input.sortOrder, "asc")
           IN /\ SortedBy(ret.val, file.data, field, order)
              /\ (/\ field = "createdAt" /\ order = "desc"
                  /\ OnlyCriterion(op.input, "none")
                  /\ \A i, j \in DOMAIN file.data :
                        i < j => file.data[i].createdAt.ms < file.data[j].createdAt.ms)
                    => ret.val = Reverse(file.data)
              /\ (field = "favorite" /\ order = "desc")
                    => \A i, j \in DOMAIN ret.val :
                          (ret.val[j].favorite /\ ~ret.val[i].favorite) => j < i

\* Three records created at three instants come back newest first
C19_Witness ==
    /\ Filtered /\ op.input.sortBy = {"createdAt"} /\ op.input.sortOrder = {"desc"}
    /\ OnlyCriterion(op.input, "none")
    /\ Len(file.data) = 3
    /\ file.data[1].createdAt.ms < file.data[2].createdAt.ms
    /\ file.data[2].createdAt.ms < file.data[3].createdAt.ms
    /\ ret.val = <<file.data[3], file.data[2], file.data[1]>>

\* C20: the record add returns has createdAt equal to updatedAt.  It does
\* not hold: the two timestamps are two readings of the clock.
C20_AddTimestampsEqual ==
    (call.name = "add" /\ ret.kind = "snippet")
        => GetTime(ret.val.createdAt) = GetTime(ret.val.updatedAt)

---------------------------------------------------------------------------
(* Properties of the writes *)

\* C21: an add that read the collection goes on to write it with the new
\* record after the last, every record that was stored at its index, so
\* the collection is one longer; nothing else touching the file meanwhile,
\* that is what the file then holds, and a getAll right after the add
\* returns the records in the order they were added, the new one last.
C21_AddAppends ==
    [][/\ (Step("add") /\ call'.pc = "mkdir") =>
            /\ call'.result.kind = "snippet"
            /\ Len(call'.snippets) = Len(Stored) + 1
            /\ \A i \in DOMAIN Stored : call'.snippets[i] = Stored[i]
            /\ call'.snippets[Len(Stored) + 1] = call'.result.val
       /\ (call.name = "add" /\ AtWrite(1) /\ file.state = "empty") =>
            /\ ret' = call.result
            /\ file'.state = "json"
            /\ Len(file'.data) = Len(call.snippets)
            /\ \A i \in 1..(Len(call.snippets) - 1) :
                  file'.data[i] = call.snippets[i]
            /\ file'.data[Len(call.snippets)] = SnippetToJSON(call.result.val)
       /\ (op.name = "add" /\ ret.kind = "snippet" /\ Step("getAll")) =>
            /\ ret'.kind = "array"
            /\ ret'.val # <<>>
            /\ ret'.val[Len(ret'.val)] = SnippetToJSON(ret.val)
            /\ \A i, j \in DOMAIN ret'.val :
                  i < j => GetTime(ret'.val[i].createdAt)
                             <= GetTime(ret'.val[j].createdAt)]_vars

\* getAll after the second of two adds: two records, the later one last
C21_Witness ==
    /\ op.name = "getAll" /\ op.prev = "add" /\ ret.kind = "array"
    /\ Len(ret.val) = 2
    /\ ret.val[1].id = 1 /\ ret.val[2].id = 2

\* C22: the record add creates has no tags when the input has no tags
\* field, is not a favourite when the input has no favorite field, and has
\* the tags and the favorite of the input when the input has them, the
\* empty tags sequence and favorite false included; the record it stores
\* has the same tags and favorite.
C22_AddDefaults ==
    (call.name = "add" /\ ret.kind = "snippet") =>
        /\ call.input.tags = {} => ret.val.tags = <<>>
        /\ call.input.favorite = {} => ret.val.favorite = FALSE
        /\ \A tags \in call.input.tags : ret.val.tags = tags
        /\ \A favorite \in call.input.favorite : ret.val.favorite = favorite
        /\ file.data[Len(file.data)].tags = ret.val.tags
        /\ file.data[Len(file.data)].favorite = ret.val.favorite

\* A first add without tags and favorite, a second with both
C22_Witness ==
    /\ call.name = "add" /\ ret.kind = "snippet" /\ Len(file.data) = 2
    /\ call.input.tags = {<<"t", "u">>} /\ call.input.favorite = {TRUE}
    /\ file.data[1].tags = <<>> /\ ~file.data[1].favorite
    /\ file.data[2].tags = <<"t", "u">> /\ file.data[2].favorite

\* C23: deleteAll does not read the file: whatever the file is, absent and
\* unparsable included, it goes on to write, and fails only as a write
\* fails, with the directory error when fs.mkdir fails and with the write
\* error when fs.writeFile fails, never with the read error; otherwise,
\* nothing else touching the file meanwhile, it leaves the empty collection
\* in the file, and getAll then returns the empty sequence.
C23_DeleteAllDoesNotRead ==
    [][/\ Step("deleteAll") => call'.pc = "mkdir" /\ call'.readAt = 0
       /\ (call'.name = "deleteAll" /\ call' # call) =>
            /\ ret' # Threw(StorageReadError)
            /\ ret'.kind = "error" <=>
                  \/ AtMkdir(1) /\ env.mkdirFails
                  \/ (AtOpen(1) \/ AtWrite(1)) /\ env.writeFails
       /\ (call.name = "deleteAll" /\ AtWrite(1) /\ ~env.writeFails
           /\ file.state = "empty") =>
            /\ ret' = Returned("void", <<>>)
            /\ file' = JsonFile(<<>>)
       /\ (op.name = "deleteAll" /\ ret.kind = "void"
           /\ op.prev \in {"none", "externalCorrupt"} /\ Step("getAll")) =>
            ret' = Returned("array", <<>>)]_vars

\* deleteAll has replaced a file that held no JSON
C23_Witness ==
    /\ op.name = "deleteAll" /\ op.prev = "externalCorrupt"
    /\ ret = Returned("void", <<>>)
    /\ file = JsonFile(<<>>)

\* C24: an update that found its record goes on to write a collection as
\* long as the stored one, with the updated record at the index of the
\* first record with the identifier and at every other index the record
\* that was there; nothing else touching the file meanwhile, that is what
\* the file then holds.
C24_UpdateInPlace ==
    [][/\ (Step("update") /\ call'.pc = "mkdir") =>
            /\ file.state = "json"
            /\ call'.result.kind = "snippet"
            /\ Len(call'.snippets) = Len(file.data)
            /\ \E index \in DOMAIN file.data :
                  /\ file.data[index].id = op'.id
                  /\ call'.snippets[index] = call'.result.val
                  /\ \A i \in DOMAIN file.data \ {index} :
                        call'.snippets[i] = file.data[i]
       /\ (call.name = "update" /\ AtWrite(1) /\ file.state = "empty") =>
            /\ ret' = call.result
            /\ file'.state = "json"
            /\ Len(file'.data) = Len(call.snippets)
            /\ \E index \in DOMAIN call.snippets :
                  /\ call.snippets[index] = call.result.val
                  /\ file'.data[index] = SnippetToJSON(call.result.val)
                  /\ \A i \in DOMAIN call.snippets \ {index} :
                        file'.data[i] = call.snippets[i]]_vars

\* The first of two records was updated, and is still the first
C24_Witness ==
    /\ call.name = "update" /\ ret.kind = "snippet" /\ call.id = 1
    /\ Len(file.data) = 2
    /\ file.data[1] = SnippetToJSON(ret.val)
    /\ file.data[1].title = <<>>
    /\ file.data[2].id = 2 /\ file.data[2].title # <<>>

\* C25: update and delete with an identifier that no stored record has
\* write nothing: the call ends at its read, the file is as it was, absent
\* if it was absent, the directory is not made, and the call fails neither
\* with the write error nor with the directory error, also while mkdir and
\* writeFile would fail.
C25_NoMatchNoWrite ==
    [][(nOps' = nOps + 1 /\ op'.name \in {"update", "delete"}
        /\ NoMatchIn(Stored, op'.id)) =>
          /\ call'.pc = "done"
          /\ file' = file
          /\ dirExists' = dirExists
          /\ ret' # Threw(StorageWriteError)
          /\ ret' # Threw(StorageDirectoryError)]_vars

\* delete on a store never written, while mkdir and writeFile would fail
C25_Witness ==
    /\ call.name = "delete" /\ ret = Returned("boolean", FALSE)
    /\ env.mkdirFails /\ env.writeFails
    /\ file = NoFile /\ ~dirExists

\* C26: in add, deleteAll and an update or delete that found its record,
\* the directory is made before the file is opened: the open is reached
\* from fs.mkdir alone; when fs.mkdir fails the call fails with the
\* directory error, whether or not writeFile would fail too, and the file
\* and the directory are as they were; when it does not fail there is no
\* error, also when the directory was there already, and the directory is
\* there afterwards.
C26_MkdirBeforeWrite ==
    [][/\ (call'.pc \in {"open", "write"} /\ call.pc \notin {"open", "write"}) =>
            AtMkdir(1) /\ call'.pc = "open"
       /\ (Step("add") \/ Step("update") \/ Step("delete") \/ Step("deleteAll")) =>
            call'.pc \in {"done", "mkdir"}
       /\ AtMkdir(1) =>
            IF env.mkdirFails
            THEN /\ ret' = Threw(StorageDirectoryError)
                 /\ file' = file
                 /\ dirExists' = dirExists
            ELSE /\ call'.pc = "open"
                 /\ ret'.kind # "error"
                 /\ file' = file
                 /\ dirExists']_vars

\* An update that found its record stopped at mkdir: the file holds the
\* record as the add wrote it, though writeFile would not have failed
C26_Witness ==
    /\ call.name = "update" /\ ret = Threw(StorageDirectoryError)
    /\ env.mkdirFails /\ ~env.writeFails
    /\ Len(file.data) = 1 /\ file.data[1].id = call.id
    /\ file.data[1].updatedAt = file.data[1].createdAt

\* C27: a delete that found its record removes the first record with the
\* identifier and no other, so the collection it writes is one shorter and
\* the later records with the identifier are still in it.  It does not
\* hold: after an add that kept the id of its input two records have the
\* identifier, and snippets.filter keeps neither.
C27_DeleteRemovesFirstOnly ==
    [][(Step("delete") /\ call'.result = Returned("boolean", TRUE)) =>
         /\ Len(call'.snippets) = Len(file.data) - 1
         /\ \E index \in DOMAIN file.data :
               /\ file.data[index].id = op'.id
               /\ \A i \in 1..(index - 1) :
                     file.data[i].id # op'.id /\ call'.snippets[i] = file.data[i]
               /\ \A i \in (index + 1)..Len(file.data) :
                     call'.snippets[i - 1] = file.data[i]]_vars

\* C28: getAll, getById, filter, sorting or not, and search write nothing:
\* each ends at its read, and after it the file is what it was, with its
\* records in the order they had, absent if it was absent, and the
\* directory is there only if it was.
C28_ReadsDoNotWrite ==
    [][(nOps' = nOps + 1
        /\ op'.name \in {"getAll", "getById", "filter", "search"}) =>
          /\ call'.pc = "done"
          /\ file' = file
          /\ dirExists' = dirExists]_vars

\* A sorting filter returned one of two records; the file holds both
C28_Witness ==
    /\ Filtered /\ op.input.sortBy # {}
    /\ Len(file.data) = 2 /\ Len(ret.val) = 1
    /\ ret.val[1] = file.data[2]

\* C29: an add, update or delete called while the file exists and cannot
\* be parsed fails with the read error at its read and writes nothing,
\* whatever its arguments: the file stays as it is.  Of the calls made
\* while the file is so only deleteAll puts a collection in its place: a
\* step that changes such a file is of cleanup, which removes it, of
\* deleteAll, or of the write of a call that read the file before it became
\* unparsable.
C29_CorruptFileKeptByWriters ==
    [][file.state = "corrupt" =>
         /\ (nOps' = nOps + 1 /\ op'.name \in {"add", "update", "delete"}) =>
               /\ ret' = Threw(StorageReadError)
               /\ call'.pc = "done"
               /\ file' = file
               /\ dirExists' = dirExists
         /\ file' # file =>
               \/ Step("cleanup") /\ file' = NoFile
               \/ /\ AtOpen(1) \/ AtWrite(1)
                  /\ call.name = "deleteAll" \/ op.name \in Events
         /\ (call.name = "deleteAll" /\ AtOpen(1)) => file' = EmptyFile]_vars

\* An add after the file of a stored record was overwritten with text that
\* is no JSON
C29_Witness ==
    /\ op.name = "add" /\ op.prev = "externalCorrupt"
    /\ call.name = "add" /\ ret = Threw(StorageReadError)
    /\ file = CorruptFile /\ created # {}

\* C30: however the reads and writes of two concurrent calls among add,
\* update, delete and deleteAll interleave, no collection in the file has
\* two records with one identifier; and when an update of a record read the
\* file before a delete of that record wrote it, and wrote after it, the
\* delete has returned true and the record, as updated, is in the file.  It
\* does not hold: an add with an input that has the id of a stored record
\* puts a second record with that identifier in the file.
C30_RaceKeepsIdsDistinctAndRevivesDeleted ==
    /\ file.state = "json" => UniqueIds(file.data)
    /\ \A p, q \in Callers :
          (/\ calls[p].name = "update" /\ calls[q].name = "delete"
           /\ calls[p].id = calls[q].id
           /\ calls[q].wroteAt > 0
           /\ calls[p].readAt < calls[q].wroteAt
           /\ calls[q].wroteAt < calls[p].wroteAt)
          => /\ calls[q].ret = Returned("boolean", TRUE)
             /\ calls[p].ret.kind = "snippet"
             /\ \E i \in DOMAIN file.data :
                   /\ file.data[i].id = calls[q].id
                   /\ file.data[i] = SnippetToJSON(calls[p].ret.val)

====
